---- MODULE Spec2Model ----
(***************************************************************************)
(* NexaBank onboarding backend (src/app.py): the application record store, *)
(* the onboarding handlers, the risk engine compute_risk, the decision     *)
(* mapping in risk_evaluate and the reviewer's admin_decision.             *)
(***************************************************************************)
EXTENDS Integers, Sequences, FiniteSets, TLC

VARIABLES apps, documents, admin_decisions, served, resp, today,
          inflight, batch_start, batch_done

vars == <<apps, documents, admin_decisions, served, resp, today,
          inflight, batch_start, batch_done>>

(***************************************************************************)
(* Bounds of the model.                                                    *)
(***************************************************************************)
\* requests that write to the database before the service stops being called
MaxServed == 3
\* rows the documents table may hold
MaxDocs == 2
\* distinct outcomes of one 12-digit random draw
NumRand == 2
\* application records created after the seeds
MaxNew == 1
\* requests in flight at once in the interleaved specification
MaxInflight == 2
\* rows of the documents table when compute_risk is called on its own
MaxRiskDocs == 2
\* calls of compute_risk on one applicant that are followed
MaxCalls == 2

(***************************************************************************)
(* NULL column values.  A NULL text column is "NULL", a NULL integer       *)
(* column is NullInt, a NULL account number is the empty sequence.         *)
(***************************************************************************)
Null == "NULL"
NullInt == 0 - 1
NoAccount == << >>

(***************************************************************************)
(* Calendar dates.  A date text is [fmt, y, m, d]: fmt says whether the    *)
(* text has the shape dddd-dd-dd, and y, m, d are the numbers it spells.   *)
(***************************************************************************)
NullDob == [fmt |-> FALSE, y |-> 0, m |-> 0, d |-> 0]

Date(y, m, d) == [fmt |-> TRUE, y |-> y, m |-> m, d |-> d]

IsLeap(y) == (y % 4 = 0 /\ y % 100 # 0) \/ y % 400 = 0

DaysInMonth(y, m) ==
    IF m = 2 THEN (IF IsLeap(y) THEN 29 ELSE 28)
    ELSE IF m \in {4, 6, 9, 11} THEN 30 ELSE 31

\* days of the months before month m in a common year
DaysBeforeMonth(m) == <<0, 31, 59, 90, 120, 151, 181, 212, 243, 273, 304, 334>>[m]

\* datetime.strptime(text, '%Y-%m-%d') succeeds
StrptimeOk(t) ==
    /\ t.fmt
    /\ t.y >= 1
    /\ t.m \in 1..12
    /\ t.d >= 1
    /\ t.d <= DaysInMonth(t.y, t.m)

\* the proleptic Gregorian ordinal of a date (datetime.toordinal)
Ordinal(t) ==
    LET y1 == t.y - 1
    IN  365 * y1 + (y1 \div 4) - (y1 \div 100) + (y1 \div 400)
        + DaysBeforeMonth(t.m)
        + (IF t.m > 2 /\ IsLeap(t.y) THEN 1 ELSE 0)
        + t.d

\* (datetime.now() - dob).days // 365
AgeOf(dob, now) == (Ordinal(now) - Ordinal(dob)) \div 365

(***************************************************************************)
(* Email texts.  An email is [local, host], each a sequence of tokens; the *)
(* empty (or NULL) email has no tokens.                                    *)
(***************************************************************************)
NoEmail == [local |-> << >>, host |-> << >>]

\* the disposable-domain fragments (compute_risk's list)
disposable == {"tempmail", "guerrillamail", "mailinator", "yopmail", "throwam"}

\* An email text is kept as its tokens: local is the part before '@', host
\* the labels after it.  `d in email` finds a fragment iff some token of the
\* text is that fragment; a fragment holds no '@', so it lies wholly in the
\* local part or wholly in the host part.
RECURSIVE HasFragment(_)
HasFragment(tokens) ==
    IF tokens = << >> THEN FALSE
    ELSE Head(tokens) \in disposable \/ HasFragment(Tail(tokens))

IsDisposable(email) == HasFragment(email.local) \/ HasFragment(email.host)

\* re.match(r'^[\w.+-]+@[\w-]+\.[a-zA-Z]{2,}$', email): a non-empty local
\* part, then exactly one label and a top-level domain
EmailOk(email) == Len(email.local) >= 1 /\ Len(email.host) = 2

(***************************************************************************)
(* compute_risk.  Each rule yields the amount it takes off the score and   *)
(* the signals it appends.                                                 *)
(***************************************************************************)
Signal(f, w, n) == [factor |-> f, weight |-> w, note |-> n]

\* a note text: the number formatted into it (NullInt when it holds none),
\* its fixed wording, and the flag texts joined into it
Note(value, text) == [value |-> value, text |-> text, parts |-> << >>]

\* f'{avg_conf:.0f}' of avg_conf = s / n: round to nearest, ties to even
RoundAvg(s, n) ==
    LET q == s \div n
        r == s % n
    IN  IF 2 * r < n THEN q
        ELSE IF 2 * r > n THEN q + 1
        ELSE IF q % 2 = 0 THEN q ELSE q + 1

Rule(p, sigs) == [pen |-> p, signals |-> sigs]

\* confidences = [d['confidence'] or 50 for d in doc_rows]; sum(confidences)
RECURSIVE SumConf(_)
SumConf(rows) ==
    IF rows = << >> THEN 0
    ELSE (IF Head(rows).confidence = 0 THEN 50 ELSE Head(rows).confidence)
         + SumConf(Tail(rows))

RECURSIVE AllFlags(_)
AllFlags(rows) ==
    IF rows = << >> THEN << >>
    ELSE Head(rows).tamper_flags \o AllFlags(Tail(rows))

\* if doc_rows:
HasDocs(doc_rows) == doc_rows # << >>

\* 1. OCR confidence: avg_conf = sum / len is compared as sum against
\* threshold * len
OcrRule(doc_rows) ==
    IF ~HasDocs(doc_rows) THEN Rule(0, << >>)
    ELSE LET s == SumConf(doc_rows)
             n == Len(doc_rows)
         IN  IF s >= 75 * n
             THEN Rule(0, <<Signal("OCR Confidence", 0,
                                   Note(RoundAvg(s, n), "high quality document image"))>>)
             ELSE IF s >= 50 * n
             THEN Rule(10, <<Signal("OCR Confidence", 0 - 10,
                                    Note(RoundAvg(s, n), "moderate quality"))>>)
             ELSE Rule(25, <<Signal("OCR Confidence", 0 - 25,
                                    Note(RoundAvg(s, n), "low quality or illegible"))>>)

\* TamperRule outside the `if doc_rows:` block
TamperRuleUnguarded(doc_rows) ==
    LET all_flags == AllFlags(doc_rows)
    IN  IF all_flags # << >>
        THEN Rule(20 * Len(all_flags),
                  <<Signal("Tamper Detection", 0 - 20 * Len(all_flags),
                           [Note(NullInt, "") EXCEPT !.parts = all_flags])>>)
        ELSE Rule(0, <<Signal("Tamper Detection", 0,
                              Note(NullInt, "No anomalies detected"))>>)

\* TamperRule showing one flag's weight however many flags there are
TamperRuleFlatWeight(doc_rows) ==
    IF ~HasDocs(doc_rows) THEN Rule(0, << >>)
    ELSE LET all_flags == AllFlags(doc_rows)
         IN  IF all_flags # << >>
             THEN Rule(20 * Len(all_flags),
                       <<Signal("Tamper Detection", 0 - 20,
                                [Note(NullInt, "") EXCEPT !.parts = all_flags])>>)
             ELSE Rule(0, <<Signal("Tamper Detection", 0,
                                   Note(NullInt, "No anomalies detected"))>>)

\* 2. Tamper flags
TamperRule(doc_rows) ==
    IF ~HasDocs(doc_rows) THEN Rule(0, << >>)
    ELSE LET all_flags == AllFlags(doc_rows)
         IN  IF all_flags # << >>
             THEN Rule(20 * Len(all_flags),
                       <<Signal("Tamper Detection", 0 - 20 * Len(all_flags),
                                [Note(NullInt, "") EXCEPT !.parts = all_flags])>>)
             ELSE Rule(0, <<Signal("Tamper Detection", 0,
                                   Note(NullInt, "No anomalies detected"))>>)

\* AgeRule with a minor treated like a parse error
AgeRuleLenient(app_row, now) ==
    IF ~StrptimeOk(app_row.dob)
    THEN Rule(10, <<Signal("Age Gate", 0 - 10, Note(NullInt, "DOB parse error"))>>)
    ELSE LET age == AgeOf(app_row.dob, now)
         IN  IF age < 18
             THEN Rule(10, <<Signal("Age Gate", 0 - 10, Note(age, "below 18"))>>)
             ELSE IF age <= 65
             THEN Rule(0, <<Signal("Age Gate", 0, Note(age, "valid range"))>>)
             ELSE Rule(5, <<Signal("Age Gate", 0 - 5, Note(age, "senior applicant"))>>)

\* 3. Age: a NULL or unparsable dob raises inside the try block
AgeRule(app_row, now) ==
    IF ~StrptimeOk(app_row.dob)
    THEN Rule(10, <<Signal("Age Gate", 0 - 10, Note(NullInt, "DOB parse error"))>>)
    ELSE LET age == AgeOf(app_row.dob, now)
         IN  IF age < 18
             THEN Rule(100, <<Signal("Age Gate", 0 - 100, Note(age, "below 18"))>>)
             ELSE IF age <= 65
             THEN Rule(0, <<Signal("Age Gate", 0, Note(age, "valid range"))>>)
             ELSE Rule(5, <<Signal("Age Gate", 0 - 5, Note(age, "senior applicant"))>>)

\* FaceRule drawing the score itself, a new one on each call
FaceRuleDrawn(app_row) ==
    LET face == 82 + 16 * Len(batch_done)
    IN  IF face >= 90
        THEN Rule(0, <<Signal("Biometric Match", 0, Note(face, "strong match"))>>)
        ELSE Rule(10, <<Signal("Biometric Match", 0 - 10, Note(face, "acceptable"))>>)

\* 4. Face match: face = app_row['face_score'] or 0
FaceRule(app_row) ==
    LET face == IF app_row.face_score = NullInt THEN 0 ELSE app_row.face_score
    IN  IF face >= 90
        THEN Rule(0, <<Signal("Biometric Match", 0, Note(face, "strong match"))>>)
        ELSE IF face >= 75
        THEN Rule(10, <<Signal("Biometric Match", 0 - 10, Note(face, "acceptable"))>>)
        ELSE IF face > 0
        THEN Rule(30, <<Signal("Biometric Match", 0 - 30, Note(face, "poor match"))>>)
        ELSE Rule(15, <<Signal("Biometric Match", 0 - 15, Note(NullInt, "No biometric data"))>>)

\* OtpRule taking nothing off for an unverified OTP
OtpRuleFree(app_row) ==
    IF app_row.otp_verified
    THEN Rule(0, <<Signal("OTP Verification", 0,
                    Note(NullInt, "Mobile/email OTP verified"))>>)
    ELSE Rule(0, <<Signal("OTP Verification", 0, Note(NullInt, "OTP not verified"))>>)

\* 5. OTP verified
OtpRule(app_row) ==
    IF app_row.otp_verified
    THEN Rule(0, <<Signal("OTP Verification", 0,
                    Note(NullInt, "Mobile/email OTP verified"))>>)
    ELSE Rule(20, <<Signal("OTP Verification", 0 - 20, Note(NullInt, "OTP not verified"))>>)

\* 6. Email domain
EmailRule(app_row) ==
    IF IsDisposable(app_row.email)
    THEN Rule(20, <<Signal("Email Trust", 0 - 20,
                     Note(NullInt, "Disposable email detected"))>>)
    ELSE IF app_row.email # NoEmail
    THEN Rule(0, <<Signal("Email Trust", 0, Note(NullInt, "Email domain OK"))>>)
    ELSE Rule(0, << >>)

Max(a, b) == IF a >= b THEN a ELSE b

Min(a, b) == IF a <= b THEN a ELSE b

\* ClampScore without the lower clamp
ClampScoreUpperOnly(score) == Min(100, score)

\* score = max(0, min(100, score))
ClampScore(score) == Max(0, Min(100, score))

\* level = 'Low' if score >= 70 else 'Medium' if score >= 45 else 'High'
LevelOf(score) ==
    IF score >= 70 THEN "Low" ELSE IF score >= 45 THEN "Medium" ELSE "High"

RiskRules(app_row, doc_rows, now) ==
    <<OcrRule(doc_rows), TamperRule(doc_rows), AgeRule(app_row, now),
      FaceRule(app_row), OtpRule(app_row), EmailRule(app_row)>>

RECURSIVE SumPen(_)
SumPen(rules) ==
    IF rules = << >> THEN 0 ELSE Head(rules).pen + SumPen(Tail(rules))

RECURSIVE CatSignals(_)
CatSignals(rules) ==
    IF rules = << >> THEN << >>
    ELSE Head(rules).signals \o CatSignals(Tail(rules))

compute_risk(app_row, doc_rows, now) ==
    LET rules == RiskRules(app_row, doc_rows, now)
        score == ClampScore(100 - SumPen(rules))
    IN  [score |-> score, level |-> LevelOf(score), signals |-> CatSignals(rules)]

(***************************************************************************)
(* Account numbers and routing codes.  An account number is the sequence   *)
(* of its characters.                                                      *)
(***************************************************************************)
DigitChar == <<"0", "1", "2", "3", "4", "5", "6", "7", "8", "9">>

Digits == {DigitChar[i] : i \in 1..10}

\* the outcomes of [random.randint(0,9) for _ in range(12)] the model draws
RandomDraws == {[i \in 1..12 |-> (3 * k + i * (k + 6)) % 10] : k \in 1..NumRand}

\* ''.join(str(x) ...) then f"{n[:4]} {n[4:8]} {n[8:]}"
FormatAccount(draw) ==
    LET n == [i \in 1..12 |-> DigitChar[draw[i] + 1]]
    IN  SubSeq(n, 1, 4) \o <<" ">> \o SubSeq(n, 5, 8) \o <<" ">> \o SubSeq(n, 9, 12)

\* the routing code risk_evaluate writes, and the one the seeds carry
RiskIfsc == "NXBA0001234"

SeedIfsc == "NXBA0001"

(***************************************************************************)
(* The applications table.                                                 *)
(***************************************************************************)
NoId == ""

SeedIds == {"NXB-DEMO-001", "NXB-DEMO-002", "NXB-DEMO-003", "NXB-DEMO-004",
            "NXB-DEMO-005"}

\* 'NXB-' + uuid4().hex[:8].upper(): the identifiers the model draws
NewIdNames == <<"NXB-3F9A1C07", "NXB-B2D4E6F8", "NXB-0A1B2C3D">>

NewIds == {NewIdNames[k] : k \in 1..Min(MaxNew, Len(NewIdNames))}

OfflineIds == {"NXB-OFFLINE-1"}

IsOffline(id) == id \in OfflineIds

\* a row as INSERT INTO applications(id,status,method,created_at,updated_at)
\* leaves it: the column defaults
DefaultApp ==
    [name |-> Null, dob |-> NullDob, email |-> NoEmail, face_score |-> NullInt,
     risk_score |-> NullInt, risk_level |-> Null, otp_hash |-> Null,
     otp_verified |-> FALSE, account_number |-> NoAccount, ifsc |-> Null,
     status |-> "In Progress"]

Gmail(local) == [local |-> <<local>>, host |-> <<"gmail", "com">>]

Acct(a, b, c, d, e, f, g, h, i, j, k, l) ==
    <<DigitChar[a + 1], DigitChar[b + 1], DigitChar[c + 1], DigitChar[d + 1], " ",
      DigitChar[e + 1], DigitChar[f + 1], DigitChar[g + 1], DigitChar[h + 1], " ",
      DigitChar[i + 1], DigitChar[j + 1], DigitChar[k + 1], DigitChar[l + 1]>>

SeedRow(name, dob, email, score, level, status, account, ifsc, face) ==
    [name |-> name, dob |-> dob, email |-> email, face_score |-> face,
     risk_score |-> score, risk_level |-> level, otp_hash |-> Null,
     otp_verified |-> TRUE, account_number |-> account, ifsc |-> ifsc,
     status |-> status]

\* the demo rows of seed_applications; face[id] is random.randint(80,99)
SeedApps(face) ==
    [id \in SeedIds |->
       CASE id = "NXB-DEMO-001" ->
              SeedRow("Rohan Mehta", Date(1992, 4, 15), Gmail("rohan.mehta"), 82, "Low",
                      "Approved", Acct(7,7,4,2,8,9,1,0,3,3,5,1), SeedIfsc, face[id])
         [] id = "NXB-DEMO-002" ->
              SeedRow("Priya Sharma", Date(1988, 11, 22), Gmail("priya.sharma"), 54, "Medium",
                      "Pending", NoAccount, Null, face[id])
         [] id = "NXB-DEMO-003" ->
              SeedRow("Anjali Gupta", Date(2001, 7, 8), Gmail("anjali.g"), 18, "High",
                      "Escalated", NoAccount, Null, face[id])
         [] id = "NXB-DEMO-004" ->
              SeedRow("Vikram Singh", Date(1995, 3, 30), Gmail("vikram.s"), 91, "Low",
                      "Approved", Acct(6,6,1,2,4,4,3,0,9,9,8,1), SeedIfsc, face[id])
         [] id = "NXB-DEMO-005" ->
              SeedRow("Kavitha Nair", Date(1990, 9, 12), Gmail("kavitha.n"), 48, "Medium",
                      "Pending", NoAccount, Null, face[id])]

\* UPDATE applications SET ... WHERE id=?: no row, no change
UpdateApp(table, id, row) ==
    IF id \in DOMAIN table THEN [table EXCEPT ![id] = row] ELSE table

\* SELECT * FROM documents WHERE application_id=?
RECURSIVE DocsOf(_, _)
DocsOf(rows, id) ==
    IF rows = << >> THEN << >>
    ELSE IF Head(rows).application_id = id
         THEN <<Head(rows)>> \o DocsOf(Tail(rows), id)
         ELSE DocsOf(Tail(rows), id)

(***************************************************************************)
(* The response of the last request handled; named and dob are the id and  *)
(* the date of birth the request carried.                                  *)
(***************************************************************************)
Resp(op, id, code) ==
    [op |-> op, app_id |-> id, named |-> NoId, code |-> code, created |-> FALSE,
     status |-> Null, account_number |-> NoAccount, ifsc |-> Null,
     risk_level |-> Null, risk_score |-> NullInt, signals |-> << >>,
     decision |-> Null, ai_overridden |-> FALSE, verified |-> FALSE,
     dob |-> NullDob]

(***************************************************************************)
(* What the requests carry.                                                *)
(***************************************************************************)
\* the application ids a request names (session or body); NoId is none
ReqIds == {"NXB-DEMO-001", "NXB-DEMO-003"} \cup NewIds

\* the ids the OTP requests carry: those, and an offline-mode id
OtpIds == ReqIds \cup OfflineIds

MalformedDob == [fmt |-> FALSE, y |-> 1990, m |-> 6, d |-> 15]

Mailinator(local) == [local |-> <<local>>, host |-> <<"mailinator", "com">>]

\* the (name, dob, email) texts submitted to submit_identity
IdentityInputs ==
    {<<"Asha Rao", Date(1990, 6, 15), Gmail("asha")>>,
     <<"Asha Rao", Date(1990, 6, 15), Mailinator("asha")>>,
     <<"", Date(1990, 6, 15), Gmail("asha")>>,
     <<"Asha Rao", MalformedDob, Gmail("asha")>>,
     <<"Asha Rao", Date(2023, 2, 30), Gmail("asha")>>,
     <<"Asha Rao", Date(2030, 1, 1), Gmail("asha")>>,
     <<"Asha Rao", Date(2012, 5, 1), Gmail("asha")>>,
     <<"Asha Rao", Date(1990, 6, 15), NoEmail>>}

\* the (doc_type, extension) of an uploaded file
UploadInputs == {<<"Aadhaar", "png">>, <<"Voter", "png">>, <<"PAN", "exe">>}

\* len(text.split()) of the recognised text
WordCounts == {3, 30}

\* random.randint(82, 98) in upload_selfie, random.randint(80, 99) in the seeds
SelfieScores == {82, 98}

SeedFaceScores == {80, 99}

StoreHashes == {"", "h1"}

VerifyHashes == {"", "h1", "h2"}

Decisions == {"", "Approved", "Rejected", "More Info", "Escalated"}

\* the day datetime.now() falls on
Today == Date(2026, 11, 3)

(***************************************************************************)
(* Creating a record when the request names none (the handlers' shared     *)
(* "if not app_id" block).                                                 *)
(***************************************************************************)
\* the ids the request may end up with
EffectiveIds(aid) == IF aid = NoId THEN NewIds \ DOMAIN apps ELSE {aid}

\* Ensured creating a record for any id that has none
EnsuredUpsert(aid, id) ==
    IF id \notin DOMAIN apps THEN apps @@ (id :> DefaultApp) ELSE apps

\* the table after the block
Ensured(aid, id) == IF aid = NoId THEN apps @@ (id :> DefaultApp) ELSE apps

Serving == served < MaxServed /\ inflight = << >>

(***************************************************************************)
(* session_start                                                           *)
(***************************************************************************)
session_start ==
    /\ Serving
    /\ \E id \in NewIds \ DOMAIN apps :
         /\ apps' = apps @@ (id :> DefaultApp)
         /\ served' = served + 1
         /\ resp' = [Resp("session_start", id, 200) EXCEPT !.created = TRUE]
    /\ UNCHANGED <<documents, admin_decisions, today, inflight,
                   batch_start, batch_done>>

(***************************************************************************)
(* submit_identity                                                         *)
(***************************************************************************)
IdentityFieldsOk(name, dob, email) ==
    /\ Len(name) >= 2
    /\ dob.fmt
    /\ EmailOk(email)

\* IdentityAgeOk without the age limit
IdentityAgeOkAnyAge(dob, now) == StrptimeOk(dob)

\* the age check: strptime must succeed and the age be at least 18
IdentityAgeOk(dob, now) == StrptimeOk(dob) /\ AgeOf(dob, now) >= 18

submit_identity(aid, name, dob, email) ==
    /\ Serving
    /\ \E id \in EffectiveIds(aid) :
         LET base == Ensured(aid, id)
         IN  IF ~IdentityFieldsOk(name, dob, email) \/ ~IdentityAgeOk(dob, today)
             THEN /\ apps' = base
                  /\ served' = served + (IF aid = NoId THEN 1 ELSE 0)
                  /\ resp' = [Resp("submit_identity", NoId, 400) EXCEPT
                                !.created = (aid = NoId), !.dob = dob]
             ELSE /\ apps' = IF id \in DOMAIN base
                             THEN UpdateApp(base, id,
                                    [base[id] EXCEPT !.name = name, !.dob = dob,
                                                     !.email = email])
                             ELSE base
                  /\ served' = served + 1
                  /\ resp' = [Resp("submit_identity", id, 200) EXCEPT
                                !.created = (aid = NoId), !.dob = dob]
    /\ UNCHANGED <<documents, admin_decisions, today, inflight,
                   batch_start, batch_done>>

(***************************************************************************)
(* run_ocr and upload_document                                             *)
(***************************************************************************)
OcrResult(conf, flags) == [confidence |-> conf, tamper_flags |-> flags]

\* the result when the text pipeline ran
OcrOfText(word_count) ==
    OcrResult(Min(95, Max(30, word_count * 3)),
              (IF word_count < 5 THEN <<"Very low text content">> ELSE << >>)
              \o (IF word_count > 200 THEN <<"Unusually high text density">> ELSE << >>))

\* the results run_ocr may return: the initial result when OCR is not
\* installed (OCR_AVAILABLE is fixed per process, the tables outlive it); the
\* result with the error flag when the pipeline raises; the result of the
\* text otherwise
run_ocr ==
    {OcrResult(0, << >>)}
    \cup {OcrResult(0, <<"OCR processing error">>)}
    \cup {OcrOfText(wc) : wc \in WordCounts}

upload_document(aid, doc_type, ext) ==
    /\ Serving
    /\ Len(documents) < MaxDocs
    /\ \E id \in EffectiveIds(aid) :
         LET base == Ensured(aid, id)
         IN  IF doc_type \notin {"Aadhaar", "PAN", "Passport"}
                \/ ext \notin {"png", "jpg", "jpeg", "pdf"}
             THEN /\ apps' = base
                  /\ documents' = documents
                  /\ served' = served + (IF aid = NoId THEN 1 ELSE 0)
                  /\ resp' = [Resp("upload_document", NoId, 400) EXCEPT
                                !.created = (aid = NoId)]
             ELSE \E ocr \in run_ocr :
                  /\ apps' = base
                  /\ documents' = Append(documents,
                        [application_id |-> id,
                         confidence |-> ocr.confidence,
                         tamper_flags |-> ocr.tamper_flags,
                         verified |-> (Len(ocr.tamper_flags) = 0
                                       /\ ocr.confidence >= 30)])
                  /\ served' = served + 1
                  /\ resp' = [Resp("upload_document", id, 200) EXCEPT
                                !.created = (aid = NoId)]
    /\ UNCHANGED <<admin_decisions, today, inflight,
                   batch_start, batch_done>>

(***************************************************************************)
(* upload_selfie                                                           *)
(***************************************************************************)
upload_selfie(aid, has_file, face_score) ==
    /\ Serving
    /\ \E id \in EffectiveIds(aid) :
         LET base == Ensured(aid, id)
         IN  IF ~has_file
             THEN /\ apps' = base
                  /\ served' = served + (IF aid = NoId THEN 1 ELSE 0)
                  /\ resp' = [Resp("upload_selfie", NoId, 400) EXCEPT
                                !.created = (aid = NoId)]
             ELSE /\ apps' = IF id \in DOMAIN base
                             THEN UpdateApp(base, id,
                                    [base[id] EXCEPT !.face_score = face_score])
                             ELSE base
                  /\ served' = served + 1
                  /\ resp' = [Resp("upload_selfie", id, 200) EXCEPT
                                !.created = (aid = NoId)]
    /\ UNCHANGED <<documents, admin_decisions, today, inflight,
                   batch_start, batch_done>>

(***************************************************************************)
(* otp_store and otp_verify                                                *)
(***************************************************************************)
otp_store(aid, otp_hash) ==
    /\ Serving
    /\ IF otp_hash = "" \/ aid = NoId
       THEN /\ resp' = Resp("otp_store", NoId, 400)
            /\ UNCHANGED <<apps, served>>
       ELSE LET base == IF IsOffline(aid) /\ aid \notin DOMAIN apps
                        THEN apps @@ (aid :> DefaultApp) ELSE apps
            IN  /\ apps' = IF aid \in DOMAIN base
                           THEN UpdateApp(base, aid,
                                  [base[aid] EXCEPT !.otp_hash = otp_hash])
                           ELSE base
                /\ served' = served + 1
                /\ resp' = Resp("otp_store", aid, 200)
    /\ UNCHANGED <<documents, admin_decisions, today, inflight,
                   batch_start, batch_done>>

otp_verify(aid, otp_hash) ==
    /\ Serving
    /\ IF otp_hash = "" \/ aid = NoId
       THEN /\ resp' = Resp("otp_verify", NoId, 400)
            /\ UNCHANGED <<apps, served>>
       ELSE IF aid \notin DOMAIN apps
       THEN \* the UPDATE of the offline branch finds no row
            /\ resp' = IF IsOffline(aid)
                       THEN [Resp("otp_verify", aid, 200) EXCEPT !.verified = TRUE]
                       ELSE Resp("otp_verify", NoId, 404)
            /\ UNCHANGED <<apps, served>>
       ELSE IF apps[aid].otp_hash = Null
       THEN /\ resp' = Resp("otp_verify", NoId, 400)
            /\ UNCHANGED <<apps, served>>
       ELSE IF apps[aid].otp_hash # otp_hash
       THEN /\ resp' = Resp("otp_verify", NoId, 400)
            /\ served' = served + 1
            /\ UNCHANGED apps
       ELSE /\ apps' = UpdateApp(apps, aid, [apps[aid] EXCEPT !.otp_verified = TRUE])
            /\ served' = served + 1
            /\ resp' = [Resp("otp_verify", aid, 200) EXCEPT !.verified = TRUE]
    /\ UNCHANGED <<documents, admin_decisions, today, inflight,
                   batch_start, batch_done>>

(***************************************************************************)
(* risk_evaluate: read the rows, compute, write the result.                *)
(***************************************************************************)
\* {'Low':'Approved','Medium':'Pending','High':'Escalated'}[level]
StatusOfLevel(level) ==
    CASE level = "Low" -> "Approved"
      [] level = "Medium" -> "Pending"
      [] level = "High" -> "Escalated"

\* if level in ('Low', 'Medium'): an account number and a routing code
IssuesAccount(level) == level \in {"Low", "Medium"}

\* what the handler computes from the rows it read
RiskOutcome(app_row, doc_rows, now, draw) ==
    LET r == compute_risk(app_row, doc_rows, now)
    IN  [score |-> r.score, level |-> r.level, signals |-> r.signals,
         account_number |-> IF IssuesAccount(r.level) THEN FormatAccount(draw)
                            ELSE NoAccount,
         ifsc |-> IF IssuesAccount(r.level) THEN RiskIfsc ELSE Null,
         new_status |-> StatusOfLevel(r.level)]

\* RiskWrite leaving the account number and routing code columns alone
RiskWriteKeepAccount(table, id, out) ==
    IF id \in DOMAIN table
    THEN UpdateApp(table, id,
           [table[id] EXCEPT !.risk_score = out.score, !.risk_level = out.level,
                             !.status = out.new_status])
    ELSE table

\* UPDATE applications SET risk_score, risk_level, account_number, ifsc, status
RiskWrite(table, id, out) ==
    IF id \in DOMAIN table
    THEN UpdateApp(table, id,
           [table[id] EXCEPT !.risk_score = out.score, !.risk_level = out.level,
                             !.account_number = out.account_number,
                             !.ifsc = out.ifsc, !.status = out.new_status])
    ELSE table

RiskResp(named, id, out) ==
    [Resp("risk_evaluate", id, 200) EXCEPT
       !.named = named, !.created = (named = NoId), !.status = out.new_status,
       !.account_number = out.account_number, !.ifsc = out.ifsc,
       !.risk_level = out.level, !.risk_score = out.score,
       !.signals = out.signals]

risk_evaluate(aid, draw) ==
    /\ Serving
    /\ \E id \in EffectiveIds(aid) :
         LET base == Ensured(aid, id)
         IN  IF id \notin DOMAIN base
             THEN /\ apps' = base
                  /\ served' = served
                  /\ resp' = [Resp("risk_evaluate", NoId, 404) EXCEPT !.named = aid]
             ELSE LET out == RiskOutcome(base[id], DocsOf(documents, id), today, draw)
                  IN  /\ apps' = RiskWrite(base, id, out)
                      /\ served' = served + 1
                      /\ resp' = RiskResp(aid, id, out)
    /\ UNCHANGED <<documents, admin_decisions, today, inflight,
                   batch_start, batch_done>>

(***************************************************************************)
(* admin_decision                                                          *)
(***************************************************************************)
\* {'Low':'Approved','Medium':'Pending','High':'Escalated'}.get(risk_level,'Pending')
AiRec(risk_level) ==
    CASE risk_level = "Low" -> "Approved"
      [] risk_level = "Medium" -> "Pending"
      [] risk_level = "High" -> "Escalated"
      [] OTHER -> "Pending"

\* Overrode comparing the decision with 'Approved', whatever the tier
OverrodeIgnoringTier(decision, risk_level) == decision # "Approved"

\* overrode = 1 if decision != ai_rec else 0
Overrode(decision, risk_level) == decision # AiRec(risk_level)

\* {'Approved':'Approved','Rejected':'Rejected','More Info':'Pending'}.get(decision,'Pending')
DecisionStatus(decision) ==
    CASE decision = "Approved" -> "Approved"
      [] decision = "Rejected" -> "Rejected"
      [] decision = "More Info" -> "Pending"
      [] OTHER -> "Pending"

\* DecisionAccount never drawing a number
DecisionAccountKeep(decision, account_number, draw) == account_number

\* DecisionAccount drawing a new number on every approval
DecisionAccountRegenerate(decision, account_number, draw) ==
    IF decision = "Approved" THEN FormatAccount(draw) ELSE account_number

\* the account number the decision writes, from the one it read
DecisionAccount(decision, account_number, draw) ==
    IF decision = "Approved" /\ account_number = NoAccount
    THEN FormatAccount(draw)
    ELSE account_number

\* what the handler computes from the row it read
AdminOutcome(app_row, decision, draw) ==
    [decision |-> decision,
     overrode |-> Overrode(decision, app_row.risk_level),
     new_status |-> DecisionStatus(decision),
     account_number |-> DecisionAccount(decision, app_row.account_number, draw)]

\* UPDATE applications SET status=?, account_number=? WHERE id=?
AdminWrite(table, id, out) ==
    IF id \in DOMAIN table
    THEN UpdateApp(table, id,
           [table[id] EXCEPT !.status = out.new_status,
                             !.account_number = out.account_number])
    ELSE table

\* INSERT INTO admin_decisions(application_id, ..., decision, ..., ai_overridden, ...)
DecisionRow(id, out) ==
    [application_id |-> id, decision |-> out.decision,
     ai_overridden |-> IF out.overrode THEN 1 ELSE 0]

AdminResp(id, out) ==
    [Resp("admin_decision", id, 200) EXCEPT
       !.status = out.new_status, !.account_number = out.account_number,
       !.decision = out.decision, !.ai_overridden = out.overrode]

admin_decision(aid, decision, draw) ==
    /\ Serving
    /\ IF aid = NoId \/ decision = ""
       THEN /\ resp' = Resp("admin_decision", NoId, 400)
            /\ UNCHANGED <<apps, admin_decisions, served>>
       ELSE IF aid \notin DOMAIN apps
       THEN /\ resp' = Resp("admin_decision", NoId, 404)
            /\ UNCHANGED <<apps, admin_decisions, served>>
       ELSE LET out == AdminOutcome(apps[aid], decision, draw)
            IN  /\ apps' = AdminWrite(apps, aid, out)
                /\ admin_decisions' = Append(admin_decisions, DecisionRow(aid, out))
                /\ served' = served + 1
                /\ resp' = AdminResp(aid, out)
    /\ UNCHANGED <<documents, today, inflight, batch_start,
                   batch_done>>

(***************************************************************************)
(* The service handling one request at a time, from the seeded database.   *)
(***************************************************************************)
Init ==
    /\ \E f \in SeedFaceScores : apps = SeedApps([id \in SeedIds |-> f])
    /\ documents = << >>
    /\ admin_decisions = << >>
    /\ served = 0
    /\ resp = Resp("none", NoId, 0)
    /\ today = Today
    /\ inflight = << >>
    /\ batch_start = apps
    /\ batch_done = << >>

Next ==
    \/ session_start
    \/ \E aid \in ReqIds \cup {NoId}, in \in IdentityInputs :
          submit_identity(aid, in[1], in[2], in[3])
    \/ \E aid \in ReqIds \cup {NoId}, in \in UploadInputs :
          upload_document(aid, in[1], in[2])
    \/ \E aid \in ReqIds \cup {NoId}, has_file \in BOOLEAN, face \in SelfieScores :
          upload_selfie(aid, has_file, face)
    \/ \E aid \in OtpIds \cup {NoId}, h \in StoreHashes : otp_store(aid, h)
    \/ \E aid \in OtpIds \cup {NoId}, h \in VerifyHashes : otp_verify(aid, h)
    \/ \E aid \in ReqIds \cup {NoId}, draw \in RandomDraws : risk_evaluate(aid, draw)
    \/ \E aid \in ReqIds \cup {NoId}, decision \in Decisions, draw \in RandomDraws :
          admin_decision(aid, decision, draw)

Spec == Init /\ [][Next]_vars

(***************************************************************************)
(* The handlers of risk_evaluate and admin_decision interleaved.  Each     *)
(* reads its rows outside any transaction (the sqlite3 module opens one    *)
(* only before the first UPDATE or INSERT), computes, and then writes and  *)
(* commits; nothing orders one handler's read and write against another's. *)
(* inflight holds the requests that have read and not yet written;         *)
(* batch_start the table before the first of them, batch_done the          *)
(* requests completed since, in the order of their commits.                *)
(***************************************************************************)
Request(op, id, decision, draw) ==
    [op |-> op, app_id |-> id, decision |-> decision, draw |-> draw]

InFlight(req, app_row, doc_rows) ==
    [req |-> req, app_row |-> app_row, doc_rows |-> doc_rows]

\* requests a batch may still take
Accepting == Len(inflight) + Len(batch_done) < MaxInflight

RemoveAt(seq, k) == SubSeq(seq, 1, k - 1) \o SubSeq(seq, k + 1, Len(seq))

\* risk_evaluate up to its two SELECTs
risk_read(aid, draw) ==
    /\ Accepting
    /\ aid \in DOMAIN apps
    /\ inflight' = Append(inflight,
                     InFlight(Request("risk_evaluate", aid, Null, draw),
                              apps[aid], DocsOf(documents, aid)))
    /\ UNCHANGED <<apps, documents, admin_decisions, served, resp, today,
                   batch_start, batch_done>>

\* risk_evaluate from compute_risk to the commit
risk_write(k) ==
    /\ k \in 1..Len(inflight)
    /\ inflight[k].req.op = "risk_evaluate"
    /\ LET f == inflight[k]
           out == RiskOutcome(f.app_row, f.doc_rows, today, f.req.draw)
       IN  /\ apps' = RiskWrite(apps, f.req.app_id, out)
           /\ resp' = RiskResp(f.req.app_id, f.req.app_id, out)
           /\ batch_done' = Append(batch_done, f.req)
    /\ inflight' = RemoveAt(inflight, k)
    /\ served' = served + 1
    /\ UNCHANGED <<documents, admin_decisions, today, batch_start>>

\* admin_decision up to its SELECT
admin_read(aid, decision, draw) ==
    /\ Accepting
    /\ aid \in DOMAIN apps
    /\ decision # ""
    /\ inflight' = Append(inflight,
                     InFlight(Request("admin_decision", aid, decision, draw),
                              apps[aid], << >>))
    /\ UNCHANGED <<apps, documents, admin_decisions, served, resp, today,
                   batch_start, batch_done>>

\* admin_decision from the override flag to the commit
admin_write(k) ==
    /\ k \in 1..Len(inflight)
    /\ inflight[k].req.op = "admin_decision"
    /\ LET f == inflight[k]
           out == AdminOutcome(f.app_row, f.req.decision, f.req.draw)
       IN  /\ apps' = AdminWrite(apps, f.req.app_id, out)
           /\ admin_decisions' = Append(admin_decisions, DecisionRow(f.req.app_id, out))
           /\ resp' = AdminResp(f.req.app_id, out)
           /\ batch_done' = Append(batch_done, f.req)
    /\ inflight' = RemoveAt(inflight, k)
    /\ served' = served + 1
    /\ UNCHANGED <<documents, today, batch_start>>

ConcNext ==
    \/ \E aid \in ReqIds, draw \in RandomDraws : risk_read(aid, draw)
    \/ \E k \in 1..MaxInflight : risk_write(k)
    \/ \E aid \in ReqIds, decision \in Decisions, draw \in RandomDraws :
          admin_read(aid, decision, draw)
    \/ \E k \in 1..MaxInflight : admin_write(k)

ConcSpec == Init /\ [][ConcNext]_vars

\* the tables after the requests of reqs run one after the other
RECURSIVE Serial(_, _)
Serial(db, reqs) ==
    IF reqs = << >> THEN db
    ELSE LET r == Head(reqs)
             row == db.apps[r.app_id]
         IN  IF r.op = "risk_evaluate"
             THEN Serial([db EXCEPT !.apps =
                            RiskWrite(db.apps, r.app_id,
                              RiskOutcome(row, DocsOf(documents, r.app_id),
                                          today, r.draw))],
                         Tail(reqs))
             ELSE LET out == AdminOutcome(row, r.decision, r.draw)
                  IN  Serial([apps |-> AdminWrite(db.apps, r.app_id, out),
                              decisions |-> db.decisions
                                            \cup {DecisionRow(r.app_id, out)}],
                             Tail(reqs))

(***************************************************************************)
(* compute_risk on its own: any applicant row, any documents, any day.     *)
(***************************************************************************)
RiskId == "NXB-RISK"

RiskDobs ==
    {NullDob, MalformedDob, Date(2030, 1, 1), Date(2012, 5, 1), Date(2008, 11, 5),
     Date(2008, 11, 3), Date(1990, 6, 15), Date(1961, 4, 15), Date(1950, 1, 1)}

RiskEmails ==
    {NoEmail, Gmail("asha"), Mailinator("asha"), Gmail("yopmail")}

RiskFaces == {NullInt, 0, 60, 80, 95}

RiskDays == {Date(2026, 11, 3), Date(2027, 4, 16)}

\* rows of the documents table for one application
RiskDocRow(conf, flags) ==
    [application_id |-> RiskId, confidence |-> conf, tamper_flags |-> flags,
     verified |-> (Len(flags) = 0 /\ conf >= 30)]

\* an unread document without and with the error flag, a poor one with a
\* flag, a clean one
RiskDocRows ==
    {RiskDocRow(0, << >>), RiskDocRow(0, <<"OCR processing error">>),
     RiskDocRow(40, <<"Very low text content">>), RiskDocRow(80, << >>)}

RiskDocLists == UNION {[1..n -> RiskDocRows] : n \in 0..MaxRiskDocs}

RiskInit ==
    /\ \E dob \in RiskDobs, email \in RiskEmails, face \in RiskFaces,
          otp \in BOOLEAN :
         apps = (RiskId :> [DefaultApp EXCEPT !.dob = dob, !.email = email,
                                              !.face_score = face,
                                              !.otp_verified = otp])
    /\ documents \in RiskDocLists
    /\ today \in RiskDays
    /\ admin_decisions = << >>
    /\ served = 0
    /\ resp = Resp("none", NoId, 0)
    /\ inflight = << >>
    /\ batch_start = apps
    /\ batch_done = << >>

\* what one call of compute_risk returned, and the day it ran on
RiskCall(now, r) ==
    [today |-> now, score |-> r.score, level |-> r.level, signals |-> r.signals]

\* a call of compute_risk with the row and its documents; the response holds
\* what it returns, and batch_done keeps the calls made so far
call_compute_risk ==
    /\ Len(batch_done) < MaxCalls
    /\ LET r == compute_risk(apps[RiskId], DocsOf(documents, RiskId), today)
       IN  /\ resp' = [Resp("compute_risk", RiskId, 200) EXCEPT
                         !.risk_score = r.score, !.risk_level = r.level,
                         !.signals = r.signals]
           /\ batch_done' = Append(batch_done, RiskCall(today, r))
    /\ UNCHANGED <<apps, documents, admin_decisions, served, today, inflight,
                   batch_start>>

\* datetime.now() moves on to a later day between two calls
clock_advance ==
    /\ \E d \in RiskDays : Ordinal(d) > Ordinal(today) /\ today' = d
    /\ UNCHANGED <<apps, documents, admin_decisions, served, resp, inflight,
                   batch_start, batch_done>>

RiskNext == call_compute_risk \/ clock_advance

RiskSpec == RiskInit /\ [][RiskNext]_vars

(***************************************************************************)
(* Properties.                                                             *)
(***************************************************************************)
\* 12 decimal digits grouped 4-4-4 with single spaces
WellFormedAccount(a) ==
    /\ Len(a) = 14
    /\ a[5] = " "
    /\ a[10] = " "
    /\ \A i \in (1..14) \ {5, 10} : a[i] \in Digits

\* the sum of the weights of a list of signals
RECURSIVE SumWeights(_)
SumWeights(signals) ==
    IF signals = << >> THEN 0
    ELSE Head(signals).weight + SumWeights(Tail(signals))

\* the response of a completed risk evaluation
Evaluated == resp.op = "risk_evaluate" /\ resp.code = 200

\* the response of a recorded reviewer decision
Decided == resp.op = "admin_decision" /\ resp.code = 200

\* the response of a call of compute_risk
Scored == resp.op = "compute_risk"

\* the day the last call of compute_risk ran on
EvalDay == batch_done[Len(batch_done)].today

\* C1: whenever risk_evaluate computes tier Medium, the status is Pending and
\* neither the record nor the response carries an account number or a
\* routing code after the evaluation.
C1_MediumPendingNoAccount ==
    (Evaluated /\ resp.risk_level = "Medium") =>
        /\ resp.status = "Pending"
        /\ apps[resp.app_id].status = "Pending"
        /\ apps[resp.app_id].account_number = NoAccount
        /\ apps[resp.app_id].ifsc = Null
        /\ resp.account_number = NoAccount
        /\ resp.ifsc = Null

\* C2: whenever risk_evaluate computes tier Low, the status is Approved, the
\* stored account number is 12 digits grouped 4-4-4, and the routing code
\* stored with it is the one every application holding an account number
\* carries.
C2_LowApprovedOneRoutingCode ==
    (Evaluated /\ resp.risk_level = "Low") =>
        /\ apps[resp.app_id].status = "Approved"
        /\ WellFormedAccount(apps[resp.app_id].account_number)
        /\ apps[resp.app_id].ifsc # Null
        /\ \A other \in DOMAIN apps :
              apps[other].account_number # NoAccount =>
                  apps[other].ifsc = apps[resp.app_id].ifsc

\* C3: whenever risk_evaluate computes tier High, the status is Escalated and
\* the record holds no account number after the evaluation, whatever it held
\* before.
C3_HighEscalatedNoAccount ==
    (Evaluated /\ resp.risk_level = "High") =>
        /\ resp.status = "Escalated"
        /\ apps[resp.app_id].status = "Escalated"
        /\ apps[resp.app_id].account_number = NoAccount
        /\ resp.account_number = NoAccount

\* C3's case: the seeded NXB-DEMO-001 (Approved, with an account number) is
\* evaluated High as the third request, after the two uploads that put its
\* two flagged documents there, so it held its number until this evaluation.
C3_Witness ==
    /\ Evaluated
    /\ resp.risk_level = "High"
    /\ resp.app_id = "NXB-DEMO-001"
    /\ Len(DocsOf(documents, "NXB-DEMO-001")) = 2
    /\ served = 3
    /\ apps["NXB-DEMO-001"].account_number = NoAccount

\* C4: compute_risk returns a score in 0..100, and the tier is Low iff
\* score >= 70, Medium iff 45 <= score < 70, High iff score < 45.
C4_ScoreRangeAndTier ==
    Scored =>
        /\ resp.risk_score >= 0
        /\ resp.risk_score <= 100
        /\ (resp.risk_level = "Low") <=> (resp.risk_score >= 70)
        /\ (resp.risk_level = "Medium") <=>
              (resp.risk_score >= 45 /\ resp.risk_score < 70)
        /\ (resp.risk_level = "High") <=> (resp.risk_score < 45)

\* C4's case: the penalties exceed 100 and the score is clamped to 0
C4_Witness ==
    /\ Scored
    /\ resp.risk_score = 0
    /\ SumWeights(resp.signals) < 0 - 100
    /\ resp.risk_level = "High"

\* C5: for an applicant whose computed age is below 18, compute_risk returns
\* score 0 and tier High, whatever the other inputs are.
C5_MinorScoresZero ==
    (Scored /\ StrptimeOk(apps[RiskId].dob) /\ AgeOf(apps[RiskId].dob, EvalDay) < 18) =>
        /\ resp.risk_score = 0
        /\ resp.risk_level = "High"

\* C5's case: a 14-year-old whose other signals are all clean
C5_Witness ==
    /\ Scored
    /\ apps[RiskId].dob = Date(2012, 5, 1)
    /\ AgeOf(apps[RiskId].dob, EvalDay) = 14
    /\ apps[RiskId].face_score = 95
    /\ apps[RiskId].otp_verified
    /\ apps[RiskId].email = Gmail("asha")
    /\ documents = << >>
    /\ resp.risk_score = 0

\* the penalty of the rules that do not read the documents, spelled out
C6_OtherPenalties(row, now) ==
    (IF ~StrptimeOk(row.dob) THEN 10
     ELSE IF AgeOf(row.dob, now) < 18 THEN 100
     ELSE IF AgeOf(row.dob, now) <= 65 THEN 0 ELSE 5)
    + (IF row.face_score >= 90 THEN 0
       ELSE IF row.face_score >= 75 THEN 10
       ELSE IF row.face_score > 0 THEN 30 ELSE 15)
    + (IF row.otp_verified THEN 0 ELSE 20)
    + (IF IsDisposable(row.email) THEN 20 ELSE 0)

\* C6: with an empty document list, the signals hold neither 'OCR Confidence'
\* nor 'Tamper Detection', and the score is the one the age, biometric, OTP
\* and email rules give alone.
C6_NoDocumentsNoPenalty ==
    (Scored /\ documents = << >>) =>
        /\ \A i \in 1..Len(resp.signals) :
              resp.signals[i].factor \notin {"OCR Confidence", "Tamper Detection"}
        /\ resp.risk_score =
              Max(0, 100 - C6_OtherPenalties(apps[RiskId], EvalDay))

\* C6's case: no documents, every other rule clean, score 100
C6_Witness ==
    /\ Scored
    /\ documents = << >>
    /\ resp.risk_score = 100
    /\ Len(resp.signals) = 4

\* the default disposition a tier implies, as the claim gives it
C7_Default(tier) ==
    CASE tier = "Low" -> "Approved"
      [] tier = "Medium" -> "Pending"
      [] tier = "High" -> "Escalated"

\* C7: when the reviewer's decision differs from the default the stored tier
\* implies, the override flag is recorded as true (in the response and in the
\* admin_decisions row); decision Approved on a Medium-tier application
\* yields status Approved with the flag true.
C7_OverrideRecorded ==
    (Decided /\ apps[resp.app_id].risk_level \in {"Low", "Medium", "High"}) =>
        LET tier == apps[resp.app_id].risk_level
            row  == admin_decisions[Len(admin_decisions)]
            flagged == resp.ai_overridden /\ row.ai_overridden = 1
                       /\ row.application_id = resp.app_id
        IN  /\ (resp.decision # C7_Default(tier)) => flagged
            /\ (resp.decision = "Approved" /\ tier = "Medium") =>
                   (apps[resp.app_id].status = "Approved" /\ flagged)

\* C7's case: Approved recorded on a Medium-tier application
C7_Witness ==
    /\ Decided
    /\ resp.decision = "Approved"
    /\ apps[resp.app_id].risk_level = "Medium"
    /\ apps[resp.app_id].status = "Approved"
    /\ resp.ai_overridden
    /\ admin_decisions[Len(admin_decisions)].ai_overridden = 1

\* C8: an Approved decision on an application without an account number
\* stores a generated number in the 4-4-4 format (and answers with it); on an
\* application that has a number, it leaves the number unchanged.
C8_ApprovalAccount ==
    [][(resp'.op = "admin_decision" /\ resp'.code = 200
        /\ resp'.decision = "Approved") =>
          LET id == resp'.app_id
          IN  /\ resp'.account_number = apps'[id].account_number
              /\ IF apps[id].account_number = NoAccount
                 THEN WellFormedAccount(apps'[id].account_number)
                 ELSE apps'[id].account_number = apps[id].account_number]_vars

\* C8's case: the first request approves the seeded NXB-DEMO-003, which has
\* no account number, and a number is stored
C8_Witness ==
    /\ Decided
    /\ resp.decision = "Approved"
    /\ resp.app_id = "NXB-DEMO-003"
    /\ served = 1
    /\ WellFormedAccount(apps["NXB-DEMO-003"].account_number)

\* C9 as stated: a risk evaluation request never creates an application
\* record.
C9_NeverCreates ==
    [][(resp'.op = "risk_evaluate") => (DOMAIN apps' = DOMAIN apps)]_vars

\* C9 amended: a risk evaluation request that names an application id without
\* a record is answered not-found and leaves the records unchanged; one that
\* names an existing record creates none; one that names no id creates one
\* In Progress record and evaluates it.
C9_NotFoundOrCreated ==
    [][(resp'.op = "risk_evaluate") =>
          IF resp'.named = NoId
          THEN /\ resp'.code = 200
               /\ resp'.app_id \notin DOMAIN apps
               /\ DOMAIN apps' = DOMAIN apps \cup {resp'.app_id}
               /\ \A id \in DOMAIN apps : apps'[id] = apps[id]
          ELSE IF resp'.named \notin DOMAIN apps
          THEN resp'.code = 404 /\ apps' = apps
          ELSE resp'.code = 200 /\ DOMAIN apps' = DOMAIN apps]_vars

\* C9's case: an evaluation request naming an id that has no record
C9_Witness ==
    /\ resp.op = "risk_evaluate"
    /\ resp.code = 404
    /\ resp.named # NoId
    /\ resp.named \notin DOMAIN apps

\* the orders in which n requests can run one after the other
Orders(n) == {f \in [1..n -> 1..n] : \A i, j \in 1..n : f[i] = f[j] => i = j}

\* the admin_decisions rows as a set
DecisionSet == {admin_decisions[i] : i \in 1..Len(admin_decisions)}

\* C10: once concurrent risk_evaluate and admin_decision requests have all
\* completed, the application records and the recorded decisions equal those
\* of running the same requests one after the other in some order.
C10_Serializable ==
    (inflight = << >> /\ batch_done # << >>) =>
        \E f \in Orders(Len(batch_done)) :
            Serial([apps |-> batch_start, decisions |-> {}],
                   [i \in 1..Len(batch_done) |-> batch_done[f[i]]])
              = [apps |-> apps, decisions |-> DecisionSet]

\* what a call returned, without the day it ran on
C11_Result(call) ==
    [score |-> call.score, level |-> call.level, signals |-> call.signals]

SignalsOf(factor) ==
    LET Has(sig) == sig.factor = factor
    IN  SelectSeq(resp.signals, Has)

\* the sum of the confidence values as they are stored
RECURSIVE C12_SumStored(_)
C12_SumStored(rows) ==
    IF rows = << >> THEN 0
    ELSE Head(rows).confidence + C12_SumStored(Tail(rows))

\* the penalty the average of n values with sum s calls for
C12_Penalty(s, n) ==
    IF s >= 75 * n THEN 0 ELSE IF s >= 50 * n THEN 10 ELSE 25

\* C12: when at least one document exists, the OCR-confidence penalty is the
\* one the average of the stored confidence values calls for (0 from 75 up,
\* 10 from 50 up, 25 below), for every stored confidence, 0 included.
C12_PenaltyFromStoredAverage ==
    (Scored /\ documents # << >>) =>
        /\ Len(SignalsOf("OCR Confidence")) = 1
        /\ SignalsOf("OCR Confidence")[1].weight =
              0 - C12_Penalty(C12_SumStored(documents), Len(documents))

\* C13: the score is clamp(100 - sum of the penalties, 0, 100); each rule's
\* penalty is nonnegative and is minus the weight of the signal it emits;
\* every weight is <= 0; so the score is max(0, 100 + sum of the weights).
C13_ScoreFromWeights ==
    Scored =>
        LET rules == RiskRules(apps[RiskId], documents, EvalDay)
        IN  /\ \A k \in 1..Len(rules) :
                  /\ rules[k].pen >= 0
                  /\ Len(rules[k].signals) <= 1
                  /\ rules[k].pen = 0 - SumWeights(rules[k].signals)
            /\ \A k \in 1..Len(resp.signals) : resp.signals[k].weight <= 0
            /\ resp.risk_score = Max(0, Min(100, 100 - SumPen(rules)))
            /\ resp.risk_score = Max(0, 100 + SumWeights(resp.signals))

\* C13's case: two anomaly flags (40) and a low average confidence (25) are
\* the only deductions, score 35
C13_Witness ==
    /\ Scored
    /\ Len(AllFlags(documents)) = 2
    /\ SignalsOf("Tamper Detection")[1].weight = 0 - 40
    /\ SumWeights(resp.signals) = 0 - 65
    /\ resp.risk_score = 35

\* whole calendar years from dob to now: the birthdays that have occurred
C14_CalendarAge(dob, now) ==
    now.y - dob.y
    - (IF now.m < dob.m \/ (now.m = dob.m /\ now.d < dob.d) THEN 1 ELSE 0)

\* C14: an applicant whose 18th birthday has not occurred at evaluation time
\* gets the penalty of 100 from the age gate, and one whose 66th birthday has
\* not occurred gets no senior penalty.
C14_AgeInCalendarYears ==
    (Scored /\ StrptimeOk(apps[RiskId].dob)) =>
        LET age == C14_CalendarAge(apps[RiskId].dob, EvalDay)
            gate == SignalsOf("Age Gate")[1]
        IN  /\ age < 18 => gate.weight = 0 - 100
            /\ age < 66 => gate.weight # 0 - 5

\* C15: the email rule takes 20 exactly when the host part of the email holds
\* a disposable-domain fragment; a present email whose host holds none gets
\* a signal of weight 0; an absent email gets no signal.
C15_PenaltyFromHost ==
    Scored =>
        LET email == apps[RiskId].email
            trust == SignalsOf("Email Trust")
        IN  IF email = NoEmail THEN trust = << >>
            ELSE /\ Len(trust) = 1
                 /\ trust[1].weight =
                       (IF HasFragment(email.host) THEN 0 - 20 ELSE 0)

\* C16: every stored document with confidence 0, the result of an extraction
\* that did not process the document, carries at least one anomaly flag.
C16_FailedExtractionFlagged ==
    \A k \in 1..Len(documents) :
        documents[k].confidence = 0 => documents[k].tamper_flags # << >>

\* C17: the override flag is false whenever the status the reviewer's
\* (recognised) decision maps to equals the status the stored tier implies;
\* so 'More Info' on a Medium-tier application is no override.
C17_AgreementIsNoOverride ==
    (/\ Decided
     /\ resp.decision \in {"Approved", "Rejected", "More Info"}
     /\ apps[resp.app_id].risk_level \in {"Low", "Medium", "High"}
     /\ DecisionStatus(resp.decision) = C7_Default(apps[resp.app_id].risk_level)) =>
        /\ ~resp.ai_overridden
        /\ admin_decisions[Len(admin_decisions)].ai_overridden = 0

\* a date of birth that is a calendar date not after the given day
C18_ValidPast(dob, now) == StrptimeOk(dob) /\ Ordinal(dob) <= Ordinal(now)

\* C18: the date of birth stored on an application is always absent or a
\* valid calendar date not in the future; an identity submission whose date
\* is malformed, no calendar date or in the future is rejected and changes no
\* stored record.
C18_StoredDobValid ==
    /\ [](\A id \in DOMAIN apps :
            apps[id].dob = NullDob \/ C18_ValidPast(apps[id].dob, today))
    /\ [][(resp'.op = "submit_identity" /\ ~C18_ValidPast(resp'.dob, today)) =>
            /\ resp'.code = 400
            /\ \A id \in DOMAIN apps : apps'[id] = apps[id]]_vars

\* C18's case: a submission with a date in the future for a seeded applicant
\* was rejected, and the records are the seeded ones
C18_Witness ==
    /\ resp.op = "submit_identity"
    /\ resp.code = 400
    /\ ~resp.created
    /\ resp.dob = Date(2030, 1, 1)
    /\ apps = batch_start

\* C19: an application whose status is Rejected or Escalated holds no account
\* number.
C19_RejectedOrEscalatedNoAccount ==
    \A id \in DOMAIN apps :
        apps[id].status \in {"Rejected", "Escalated"} =>
            apps[id].account_number = NoAccount

\* C20: once an application's status is Rejected, a request other than an
\* admin decision neither changes that status nor changes its account number.
C20_RejectedStaysRejected ==
    [][\A id \in DOMAIN apps :
          (apps[id].status = "Rejected" /\ resp'.op # "admin_decision") =>
              /\ apps'[id].status = "Rejected"
              /\ apps'[id].account_number = apps[id].account_number]_vars

\* C21 as stated: risk_evaluate sets an application to Approved or issues it
\* an account number only if its OTP has been verified.
C21_ApprovalNeedsOtp ==
    (/\ Evaluated
     /\ \/ apps[resp.app_id].status = "Approved"
        \/ apps[resp.app_id].account_number # NoAccount) =>
        apps[resp.app_id].otp_verified

\* C21 amended: an unverified OTP only takes 20 off the score: the evaluation
\* then carries the OTP signal with weight -20 and a score of at most 80, and
\* it still sets the application to Approved exactly when that score is at
\* least 70 and issues an account number exactly when it is at least 45.
C21_OtpIsAPenaltyOnly ==
    (Evaluated /\ ~apps[resp.app_id].otp_verified) =>
        /\ Len(SignalsOf("OTP Verification")) = 1
        /\ SignalsOf("OTP Verification")[1].weight = 0 - 20
        /\ resp.risk_score <= 80
        /\ (apps[resp.app_id].status = "Approved") <=> (resp.risk_score >= 70)
        /\ (apps[resp.app_id].account_number # NoAccount) <=> (resp.risk_score >= 45)

\* C21's case: an application whose OTP was never verified is evaluated with
\* score 80 and set to Approved with an account number
C21_Witness ==
    /\ Evaluated
    /\ ~apps[resp.app_id].otp_verified
    /\ resp.risk_score = 80
    /\ apps[resp.app_id].status = "Approved"
    /\ WellFormedAccount(apps[resp.app_id].account_number)

\* C22: once an application holds an account number, no later request
\* changes that number.
C22_AccountNumberKept ==
    [][\A id \in DOMAIN apps :
          apps[id].account_number # NoAccount =>
              apps'[id].account_number = apps[id].account_number]_vars

\* C23: otp_verify answers verified only when the application exists and has
\* a hash stored (which the submitted one equals); in every other case it
\* answers an error and changes no record.
C23_VerifiedOnlyOnMatch ==
    [][(resp'.op = "otp_verify") =>
          IF resp'.code = 200 \/ resp'.verified
          THEN /\ resp'.app_id \in DOMAIN apps
               /\ apps[resp'.app_id].otp_hash # Null
               /\ apps'[resp'.app_id].otp_verified
          ELSE apps' = apps]_vars

\* C24: every application that holds an account number also holds a routing
\* code.
C24_AccountHasRoutingCode ==
    \A id \in DOMAIN apps :
        apps[id].account_number # NoAccount => apps[id].ifsc # Null

\* C25: every application whose status is Approved holds an account number.
C25_ApprovedHasAccount ==
    \A id \in DOMAIN apps :
        apps[id].status = "Approved" => apps[id].account_number # NoAccount

\* C25's case: NXB-DEMO-003, seeded Escalated without an account number, has
\* been approved by a reviewer and then evaluated again to Approved by
\* risk_evaluate, and holds an account number
C25_Witness ==
    /\ Evaluated
    /\ resp.app_id = "NXB-DEMO-003"
    /\ apps["NXB-DEMO-003"].status = "Approved"
    /\ Len(admin_decisions) = 1
    /\ admin_decisions[1].application_id = "NXB-DEMO-003"
    /\ admin_decisions[1].decision = "Approved"
    /\ WellFormedAccount(apps["NXB-DEMO-003"].account_number)

====
